---- MODULE Spec2Model ----
(***************************************************************************)
(* Control-flow model of the mod manager's client: the preview-generation  *)
(* controller with its progress-event subscription (App), and the import   *)
(* wizard driven singly or by the bulk queue (App + ImportWizard).         *)
(*                                                                         *)
(* React's rendering is folded into the actions: a handler runs against    *)
(* the values of the render that created it, its state updates are applied *)
(* as one batch, and the effects whose dependencies changed run before the *)
(* next handler.  A promise that is still pending is an element of an      *)
(* in-flight list and resolves in a later action; it carries the values    *)
(* its continuation closed over.  State updates of an unmounted component  *)
(* are dropped.  The redundant `disabled` attributes of buttons whose      *)
(* handler repeats the test are not guards of the model, so that the       *)
(* handler's own early return is exercised.                                *)
(***************************************************************************)
EXTENDS Integers, Sequences, FiniteSets, TLC

\* ------------------------------------------------------------------ bounds
MaxCount == 1          \* largest counter value carried by a progress event
MaxPendingStarts == 2  \* generation invocations whose promise is unsettled
MaxListeners == 2      \* runs of the progress-listener effect

\* ------------------------------------------------------------ JS constants
Null == "null"
Undef == "undefined"
NoMod == 0             \* selectedModId === null
Mods == {1}            \* ids of the mods the user can select

Kinds == {"image", "video"}
Statuses == {"running", "done", "error", "cancelled"}

VARIABLES
    previewImagesBusy, previewVideosBusy, previewProgress,
    previewCancelRequested, selectedModId,
    startsPending,     \* per kind, the previews_generate_* promises in flight
    eventPool,         \* which payloads the backend may emit: "all" or "bare"
    listeners,         \* one record per run of the listener effect
    pout               \* what the last preview step called and decided

pvars == <<previewImagesBusy, previewVideosBusy, previewProgress,
           previewCancelRequested, selectedModId, startsPending, listeners,
           eventPool, pout>>

VARIABLES
    app,       \* App's import state: importOpen, importMode, bulkQueue,
               \* bulkIndex, bulkBusy, the settings it reads, pending timers
    wiz,       \* the state of the mounted ImportWizard instance
    scans,     \* mods_import_dry_run promises in flight
    commits,   \* mods_import_commit promises in flight
    build,     \* the loop of startBulkImportFromLibraries between two awaits
    pools,     \* which results the collaborators may return in this run
    run,       \* per bulk run: the entries whose session was opened, closed
    iout,      \* what the last import step called and decided
    infer      \* a folder name and the author inferred from it

ivars == <<app, wiz, scans, commits, build, pools, run, iout, infer>>

vars == <<pvars, ivars>>

\* ------------------------------------------------------- preview progress
\* previewProgress === null
NoProgress ==
    [kind |-> "none", status |-> "absent", total |-> 0, processed |-> 0,
     generated |-> 0, skipped |-> 0, errors |-> 0,
     current_mod |-> Undef, message |-> Undef]

PreparingMessage(kind) ==
    IF kind = "image" THEN "Preparing preview images..."
                      ELSE "Preparing preview videos..."

\* a first progress record that keeps the counters of the last job
InitialProgressKeepsCounters(kind) ==
    IF previewProgress = NoProgress
    THEN [kind |-> kind, status |-> "running", total |-> 0, processed |-> 0,
          generated |-> 0, skipped |-> 0, errors |-> 0,
          current_mod |-> Undef, message |-> PreparingMessage(kind)]
    ELSE [previewProgress EXCEPT !.kind = kind, !.status = "running",
                                 !.message = PreparingMessage(kind)]

\* the record published by an accepted start
InitialProgress(kind) ==
    [kind |-> kind, status |-> "running", total |-> 0, processed |-> 0,
     generated |-> 0, skipped |-> 0, errors |-> 0,
     current_mod |-> Undef, message |-> PreparingMessage(kind)]

\* the record published when the invocation of the collaborator rejects
StartErrorProgress(kind) ==
    [kind |-> kind, status |-> "error", total |-> 0, processed |-> 0,
     generated |-> 0, skipped |-> 0, errors |-> 1,
     current_mod |-> Undef, message |-> "err"]

\* counters a backend event can carry: nothing processed yet, or the whole
\* batch processed with every item generated, skipped or failed
EventCounters ==
    {c \in [{"total", "processed", "generated", "skipped", "errors"}
              -> 0..MaxCount] :
        /\ c.processed \in {0, c.total}
        /\ {c.generated, c.skipped, c.errors} \subseteq {0, c.processed}
        /\ c.generated + c.skipped + c.errors = c.processed}

\* payloads of the "preview-progress" event
\* <<current_mod, message>> of an event: one of them supplied and the other
\* either null or left out
EventTexts == {<<"mod", Null>>, <<Undef, "msg">>}

Payloads ==
    {[kind |-> k, status |-> s, total |-> c.total, processed |-> c.processed,
      generated |-> c.generated, skipped |-> c.skipped, errors |-> c.errors,
      current_mod |-> t[1], message |-> t[2]] :
        k \in Kinds, s \in Statuses, c \in EventCounters, t \in EventTexts}

\* the payloads whose counters are all zero
BarePayloads == {p \in Payloads : p.total = 0}

\* the payloads of a run, by the name eventPool holds
PoolPayloads(pool) == IF pool = "bare" THEN BarePayloads ELSE Payloads

\* a ?? b
Coalesce(a, b) == IF a \in {Undef, Null} THEN b ELSE a

\* a merge that lets an event without texts wipe the stored ones
MergeProgressWipes(prev, next) ==
    [next EXCEPT !.message = Coalesce(next.message, Null),
                 !.current_mod = Coalesce(next.current_mod, Null)]

\* the updater passed to setPreviewProgress by the event handler
MergeProgress(prev, next) ==
    [next EXCEPT
        !.message = Coalesce(next.message,
                        IF prev = NoProgress THEN Null
                        ELSE Coalesce(prev.message, Null)),
        !.current_mod = Coalesce(next.current_mod,
                        IF prev = NoProgress THEN Null
                        ELSE Coalesce(prev.current_mod, Null))]

\* effect on [previewProgress]: the flag is dropped once nothing is running
CancelFlagAfter(progress, flag) ==
    IF progress = NoProgress \/ progress.status # "running" THEN FALSE ELSE flag

\* ---------------------------------------------------- listener bookkeeping
\* state of one run of the listener effect:
\*   pending   listen() called, promise unsettled, effect not cleaned up
\*   active    promise resolved, unlisten stored, handler subscribed
\*   orphaned  cleaned up while the promise was unsettled (unlisten was null)
\*   leaked    an orphaned run whose promise resolved: subscribed for good
\*   removed   unsubscribed, or the registration failed
Subscribed(l) == l.state \in {"active", "leaked"}

SubscribedHandlers == {i \in 1..Len(listeners) : Subscribed(listeners[i])}

\* cleanup of the effect run that is current
CleanupListener(l) ==
    IF l.state = "active" THEN [l EXCEPT !.state = "removed"]
    ELSE IF l.state = "pending" THEN [l EXCEPT !.state = "orphaned"]
    ELSE l

\* an effect run whose handler has been unsubscribed leaves nothing behind
Unsubscribed(l) == l.state = "removed"

\* the effect re-runs when selectedModId changes
RerunListenerEffect(ls, sel) ==
    Append(SelectSeq([i \in 1..Len(ls) |-> CleanupListener(ls[i])],
                     LAMBDA l : ~Unsubscribed(l)),
           [state |-> "pending", sel |-> sel])

NoOut ==
    [op |-> "none", kind |-> "none", accepted |-> FALSE, handled |-> 0,
     loads |-> <<>>, invoked |-> 0, cancelSent |-> "none", alert |-> FALSE,
     payload |-> NoProgress]

\* ------------------------------------------- PreviewGenerationController
\* a guard that looks at the image flag alone
StartRejectedOwnFlag(imagesBusy, videosBusy) == imagesBusy

\* the guard both generatePreview* callbacks open with
StartRejected(imagesBusy, videosBusy) == imagesBusy \/ videosBusy

\* generatePreviewImages / generatePreviewVideos
GeneratePreview(kind) ==
    IF StartRejected(previewImagesBusy, previewVideosBusy)
    THEN /\ pout' = [NoOut EXCEPT !.op = "start", !.kind = kind]
         /\ UNCHANGED <<ivars, previewImagesBusy, previewVideosBusy, previewProgress,
                        previewCancelRequested, selectedModId, startsPending,
                        listeners, eventPool>>
    ELSE /\ startsPending.image + startsPending.video < MaxPendingStarts
         /\ previewImagesBusy' = IF kind = "image" THEN TRUE
                                 ELSE previewImagesBusy
         /\ previewVideosBusy' = IF kind = "video" THEN TRUE
                                 ELSE previewVideosBusy
         /\ previewProgress' = InitialProgress(kind)
         /\ previewCancelRequested' =
                CancelFlagAfter(InitialProgress(kind), FALSE)
         /\ startsPending' = [startsPending EXCEPT ![kind] = @ + 1]
         /\ pout' = [NoOut EXCEPT !.op = "start", !.kind = kind,
                                  !.accepted = TRUE, !.invoked = 1]
         /\ UNCHANGED <<ivars, selectedModId, listeners, eventPool>>

\* the "Create preview" buttons of the settings dialog are disabled while
\* either kind is busy or the shown progress is running
CreateDisabled(imagesBusy, videosBusy, progress) ==
    \/ imagesBusy \/ videosBusy
    \/ (progress # NoProgress /\ progress.status = "running")

\* a click on an enabled "Create preview" button
ClickCreatePreview(kind) ==
    /\ ~CreateDisabled(previewImagesBusy, previewVideosBusy, previewProgress)
    /\ GeneratePreview(kind)

\* the invoke("previews_generate_*") promise resolves: nothing is attached
StartResolves ==
    \E kind \in Kinds :
        /\ startsPending[kind] > 0
        /\ startsPending' = [startsPending EXCEPT ![kind] = @ - 1]
        /\ pout' = [NoOut EXCEPT !.op = "startOk", !.kind = kind]
        /\ UNCHANGED <<ivars, previewImagesBusy, previewVideosBusy, previewProgress,
                       previewCancelRequested, selectedModId, listeners,
                       eventPool>>

\* a .catch that leaves the busy flag to a later event
StartFailsStaysBusy ==
    \E kind \in Kinds :
        /\ startsPending[kind] > 0
        /\ startsPending' = [startsPending EXCEPT ![kind] = @ - 1]
        /\ previewProgress' = StartErrorProgress(kind)
        /\ previewCancelRequested' =
               CancelFlagAfter(StartErrorProgress(kind), previewCancelRequested)
        /\ pout' = [NoOut EXCEPT !.op = "startFail", !.kind = kind,
                                 !.alert = TRUE]
        /\ UNCHANGED <<ivars, previewImagesBusy, previewVideosBusy,
                       selectedModId, listeners, eventPool>>

\* the .catch of invoke("previews_generate_*")
StartFails ==
    \E kind \in Kinds :
        /\ startsPending[kind] > 0
        /\ startsPending' = [startsPending EXCEPT ![kind] = @ - 1]
        /\ previewProgress' = StartErrorProgress(kind)
        /\ previewImagesBusy' = IF kind = "image" THEN FALSE
                                ELSE previewImagesBusy
        /\ previewVideosBusy' = IF kind = "video" THEN FALSE
                                ELSE previewVideosBusy
        /\ previewCancelRequested' =
               CancelFlagAfter(StartErrorProgress(kind), previewCancelRequested)
        /\ pout' = [NoOut EXCEPT !.op = "startFail", !.kind = kind,
                                 !.alert = TRUE]
        /\ UNCHANGED <<ivars, selectedModId, listeners, eventPool>>

\* the ids loadPreview is called with while one event is handled: one call
\* per subscribed handler that closed over a selected mod
RECURSIVE LoadsOf(_, _)
LoadsOf(ls, i) ==
    IF i > Len(ls) THEN <<>>
    ELSE (IF Subscribed(ls[i]) /\ ls[i].sel # NoMod THEN <<ls[i].sel>>
          ELSE <<>>) \o LoadsOf(ls, i + 1)

\* the five counters of p are not below those of q
CountersAtLeast(p, q) ==
    /\ p.total >= q.total
    /\ p.processed >= q.processed
    /\ p.generated >= q.generated
    /\ p.skipped >= q.skipped
    /\ p.errors >= q.errors

\* the payloads the backend may emit next: under "mono" a job reports
\* counters that never fall, so while the stored record is running every
\* event is of its kind and carries counters not below the stored ones
Emittable(pool, stored) ==
    IF pool = "mono"
    THEN {p \in Payloads :
            (stored # NoProgress /\ stored.status = "running") =>
                /\ p.kind = stored.kind
                /\ CountersAtLeast(p, stored)}
    ELSE PoolPayloads(pool)

\* delivery of one "preview-progress" event to every subscribed handler
PreviewEvent ==
    \E p \in Emittable(eventPool, previewProgress) :
        LET n == Cardinality(SubscribedHandlers)
            terminal == p.status # "running"
            merged == IF n = 0 THEN previewProgress
                      ELSE MergeProgress(previewProgress, p)
        IN
        /\ previewProgress' = merged
        /\ previewImagesBusy' =
               IF n > 0 /\ terminal /\ p.kind = "image" THEN FALSE
               ELSE previewImagesBusy
        /\ previewVideosBusy' =
               IF n > 0 /\ terminal /\ p.kind = "video" THEN FALSE
               ELSE previewVideosBusy
        /\ previewCancelRequested' =
               CancelFlagAfter(merged, previewCancelRequested)
        /\ pout' = [NoOut EXCEPT !.op = "event", !.kind = p.kind,
                                 !.handled = n,
                                 !.payload = IF n > 0 THEN p ELSE NoProgress,
                                 !.loads = IF terminal
                                           THEN LoadsOf(listeners, 1)
                                           ELSE <<>>]
        /\ UNCHANGED <<ivars, selectedModId, startsPending, listeners, eventPool>>

\* a guard that only looks for a progress record
CancelRejectedOnlyAbsent(progress) == progress = NoProgress

\* the guard cancelPreviewGeneration opens with
CancelRejected(progress) ==
    progress = NoProgress \/ progress.status # "running"

\* a cancel that publishes a fresh record
CancellingProgressReset(progress) ==
    [progress EXCEPT !.message = "Cancelling...", !.total = 0,
                     !.processed = 0, !.generated = 0, !.skipped = 0,
                     !.errors = 0]

\* the updater cancelPreviewGeneration passes to setPreviewProgress
CancellingProgress(progress) ==
    IF progress # NoProgress /\ progress.status = "running"
    THEN [progress EXCEPT !.message = "Cancelling..."]
    ELSE progress

\* a cancel that marks the job as stopped itself
CancelPreviewGenerationForces ==
    IF CancelRejected(previewProgress)
    THEN /\ pout' = [NoOut EXCEPT !.op = "cancel"]
         /\ UNCHANGED <<ivars, previewImagesBusy, previewVideosBusy,
                        previewProgress, previewCancelRequested,
                        selectedModId, startsPending, listeners, eventPool>>
    ELSE /\ previewCancelRequested' = FALSE
         /\ previewProgress' =
                [previewProgress EXCEPT !.status = "cancelled"]
         /\ previewImagesBusy' = FALSE
         /\ previewVideosBusy' = FALSE
         /\ pout' = [NoOut EXCEPT !.op = "cancel", !.accepted = TRUE,
                                  !.kind = previewProgress.kind,
                                  !.cancelSent = previewProgress.kind]
         /\ UNCHANGED <<ivars, selectedModId, startsPending, listeners,
                        eventPool>>

\* cancelPreviewGeneration
CancelPreviewGeneration ==
    IF CancelRejected(previewProgress)
    THEN /\ pout' = [NoOut EXCEPT !.op = "cancel"]
         /\ UNCHANGED <<ivars, previewImagesBusy, previewVideosBusy, previewProgress,
                        previewCancelRequested, selectedModId, startsPending,
                        listeners, eventPool>>
    ELSE /\ previewCancelRequested' = TRUE
         /\ previewProgress' = CancellingProgress(previewProgress)
         /\ pout' = [NoOut EXCEPT !.op = "cancel", !.accepted = TRUE,
                                  !.kind = previewProgress.kind,
                                  !.cancelSent = previewProgress.kind]
         /\ UNCHANGED <<ivars, previewImagesBusy, previewVideosBusy, selectedModId,
                        startsPending, listeners, eventPool>>

\* a Close button that is there whatever the status
ClearPreviewProgressAnytime ==
    /\ previewProgress # NoProgress
    /\ previewProgress' = NoProgress
    /\ previewCancelRequested' = FALSE
    /\ pout' = [NoOut EXCEPT !.op = "clear"]
    /\ UNCHANGED <<ivars, previewImagesBusy, previewVideosBusy, selectedModId,
                   startsPending, listeners, eventPool>>

\* clearPreviewProgress, behind the Close button that replaces Cancel once
\* the progress is no longer running
ClearPreviewProgress ==
    /\ previewProgress # NoProgress
    /\ previewProgress.status # "running"
    /\ previewProgress' = NoProgress
    /\ previewCancelRequested' = FALSE
    /\ pout' = [NoOut EXCEPT !.op = "clear"]
    /\ UNCHANGED <<ivars, previewImagesBusy, previewVideosBusy, selectedModId,
                   startsPending, listeners, eventPool>>

\* ------------------------------------------------ progress-listener effect
\* handleSelectMod, and the listener effect its state change re-runs
HandleSelectMod ==
    \E m \in Mods :
        /\ selectedModId' = m
        /\ IF m = selectedModId
           THEN UNCHANGED listeners
           ELSE /\ Len(RerunListenerEffect(listeners, m)) <= MaxListeners
                /\ listeners' = RerunListenerEffect(listeners, m)
        /\ pout' = [NoOut EXCEPT !.op = "select", !.loads = <<m>>]
        /\ UNCHANGED <<ivars, previewImagesBusy, previewVideosBusy, previewProgress,
                       previewCancelRequested, startsPending, eventPool>>

\* effect on [mods, selectedModId]: the selected mod left the list
DeselectMissing ==
    /\ selectedModId # NoMod
    /\ Len(RerunListenerEffect(listeners, NoMod)) <= MaxListeners
    /\ selectedModId' = NoMod
    /\ listeners' = RerunListenerEffect(listeners, NoMod)
    /\ pout' = [NoOut EXCEPT !.op = "deselect"]
    /\ UNCHANGED <<ivars, previewImagesBusy, previewVideosBusy, previewProgress,
                   previewCancelRequested, startsPending, eventPool>>

\* what .then((fn) => { unlisten = fn }) leaves of an effect run
ListenResolved(l) ==
    IF l.state = "pending" THEN [l EXCEPT !.state = "active"]
    ELSE [l EXCEPT !.state = "leaked"]

\* the listen() promise of one effect run resolves
ListenResolves ==
    \E i \in 1..Len(listeners) :
        /\ listeners[i].state \in {"pending", "orphaned"}
        /\ listeners' = [listeners EXCEPT ![i] = ListenResolved(listeners[i])]
        /\ pout' = [NoOut EXCEPT !.op = "listenOk"]
        /\ UNCHANGED <<ivars, previewImagesBusy, previewVideosBusy, previewProgress,
                       previewCancelRequested, selectedModId, startsPending,
                       eventPool>>

\* the listen() promise rejects: the .catch only logs
ListenRejects ==
    \E i \in 1..Len(listeners) :
        /\ listeners[i].state \in {"pending", "orphaned"}
        /\ listeners' = [listeners EXCEPT ![i].state = "removed"]
        /\ pout' = [NoOut EXCEPT !.op = "listenFail"]
        /\ UNCHANGED <<ivars, previewImagesBusy, previewVideosBusy, previewProgress,
                       previewCancelRequested, selectedModId, startsPending,
                       eventPool>>

\* ====================================================== import workflow
NDirs == 3             \* author folders that exist on disk
MaxScans == 1          \* mods_import_dry_run promises in flight
MaxCommits == 1        \* mods_import_commit promises in flight
MaxTimers == 2         \* setTimeout callbacks of advanceBulk not yet run

NoDir == 0             \* the empty author-folder path
Dirs == 1..NDirs       \* author-folder paths, in localeCompare order
TypedDirs == {NoDir, 1}  \* what the user enters as author folder
NullId == 0            \* character_id / costume_id === null
UndefId == -1          \* the key is missing from the record

\* ------------------------------------------------------- author inference
\* a folder name is a sequence of characters; a character outside ASCII is
\* written by its code point: U+00C9 and U+00E9 are E and e with acute,
\* U+0301 the combining acute accent, U+9F4A a CJK ideograph
UpperCase == <<"A", "B", "C", "D", "E", "F", "G", "H", "I", "J", "K", "L",
               "M", "N", "O", "P", "Q", "R", "S", "T", "U", "V", "W", "X",
               "Y", "Z">>

LowerCase == <<"a", "b", "c", "d", "e", "f", "g", "h", "i", "j", "k", "l",
               "m", "n", "o", "p", "q", "r", "s", "t", "u", "v", "w", "x",
               "y", "z">>

Digits == {"0", "1", "2", "3", "4", "5", "6", "7", "8", "9"}

\* AUTHOR_ALIASES in the order of Object.entries; the canonical name of qi
\* ends in U+9F4A
AUTHOR_ALIASES ==
    <<
       [alias |-> <<"m", "r", "m", "i", "a", "g", "i">>,
        canonical |-> "MrMiagi"],
       [alias |-> <<"y", "u", "k", "i", "i", "s", "h", "i", "d", "a">>,
        canonical |-> "Yuk11sh1d4"],
       [alias |-> <<"l", "i", "n", "r">>,
        canonical |-> "Linr"],
       [alias |-> <<"h", "c", "o", "e", "l">>,
        canonical |-> "HCoel"],
       [alias |-> <<"h", "a", "r", "d", "c", "r", "a", "c", "k", "e", "r">>,
        canonical |-> "Hardcracker"],
       [alias |-> <<"m", "r", "p", "e", "r", "h", "a", "p", "s">>,
        canonical |-> "MrPerhaps"],
       [alias |-> <<"n", "i", "m", "l", "o", "t", "h">>,
        canonical |-> "Nimloth"],
       [alias |-> <<"s", "l", "o", "t", "h">>,
        canonical |-> "Sloth"],
       [alias |-> <<"s", "y", "n", "a", "e">>,
        canonical |-> "Synae"],
       [alias |-> <<"q", "i">>,
        canonical |-> "Qi(U+9F4A)"],
       [alias |-> <<"a", "n", "e", "x", "t", "r", "a">>,
        canonical |-> "AnExtra"],
       [alias |-> <<"h", "i", "c", "c", "u", "p">>,
        canonical |-> "Hiccup"],
       [alias |-> <<"r", "i", "k", "u", "d", "o", "u", "r", "a", "y">>,
        canonical |-> "RikudouRay"],
       [alias |-> <<"m", "u", "s", "l", "i", "m", "w", "o", "m", "e", "n">>,
        canonical |-> "Muslimwomen"],
       [alias |-> <<"s", "e", "l", "i", "n", "8", "6">>,
        canonical |-> "Selin86"],
       [alias |-> <<"m", "a", "h", "d", "i", "c", "c">>,
        canonical |-> "Mahdicc"],
       [alias |-> <<"b", "b", "m", "a", "n">>,
        canonical |-> "BBman"],
       [alias |-> <<"m", "i", "n", "k", "i">>,
        canonical |-> "Minki"]
    >>

\* a lower-casing that also reads the digits 1 and 4 as the letters i and a
ToLowerCaseLeet(c) ==
    IF \E i \in 1..Len(UpperCase) : UpperCase[i] = c
    THEN LowerCase[CHOOSE i \in 1..Len(UpperCase) : UpperCase[i] = c]
    ELSE IF c = "U+00C9" THEN "U+00E9"
    ELSE IF c = "1" THEN "i"
    ELSE IF c = "4" THEN "a"
    ELSE c

\* a conversion that swaps the case of every letter
ToggleCase(c) ==
    IF \E i \in 1..Len(UpperCase) : UpperCase[i] = c
    THEN LowerCase[CHOOSE i \in 1..Len(UpperCase) : UpperCase[i] = c]
    ELSE IF \E i \in 1..Len(LowerCase) : LowerCase[i] = c
    THEN UpperCase[CHOOSE i \in 1..Len(LowerCase) : LowerCase[i] = c]
    ELSE c

\* String.prototype.toLowerCase, character by character
ToLowerCase(c) ==
    IF \E i \in 1..Len(UpperCase) : UpperCase[i] = c
    THEN LowerCase[CHOOSE i \in 1..Len(UpperCase) : UpperCase[i] = c]
    ELSE IF c = "U+00C9" THEN "U+00E9"
    ELSE c

\* normalize("NFD") of one character: an accented letter becomes the letter
\* and a combining mark
NFD(c) == IF c = "U+00E9" THEN <<"e", "U+0301">> ELSE <<c>>

\* [\u0300-\u036f]
CombiningMark(c) == c = "U+0301"

\* [a-z0-9]
AlphaNumeric(c) ==
    \/ \E i \in 1..Len(LowerCase) : LowerCase[i] = c
    \/ c \in Digits

\* toLowerCase().normalize("NFD") and the two replace calls
RECURSIVE Sanitize(_)
Sanitize(name) ==
    IF name = <<>> THEN <<>>
    ELSE SelectSeq(NFD(ToLowerCase(Head(name))),
                   LAMBDA c : ~CombiningMark(c) /\ AlphaNumeric(c))
         \o Sanitize(Tail(name))

\* String.prototype.includes
Includes(text, part) ==
    \E i \in 0..(Len(text) - Len(part)) :
        SubSeq(text, i + 1, i + Len(part)) = part

\* a loop that keeps the first alias found
RECURSIVE BestAliasFirstFound(_, _, _)
BestAliasFirstFound(sanitized, i, best) ==
    IF i > Len(AUTHOR_ALIASES) THEN best
    ELSE BestAliasFirstFound(sanitized, i + 1,
            IF Includes(sanitized, AUTHOR_ALIASES[i].alias) /\ best = 0
            THEN i ELSE best)

\* the loop over Object.entries(AUTHOR_ALIASES) from entry i on; best is the
\* index of bestAlias, 0 for null
RECURSIVE BestAlias(_, _, _)
BestAlias(sanitized, i, best) ==
    IF i > Len(AUTHOR_ALIASES) THEN best
    ELSE BestAlias(sanitized, i + 1,
            IF /\ Includes(sanitized, AUTHOR_ALIASES[i].alias)
               /\ \/ best = 0
                  \/ Len(AUTHOR_ALIASES[i].alias) >
                        Len(AUTHOR_ALIASES[best].alias)
            THEN i ELSE best)

inferAuthorFromFolderName(folderName) ==
    LET sanitized == Sanitize(folderName)
        bestAlias == BestAlias(sanitized, 1, 0)
    IN IF sanitized = <<>> THEN "unknown"
       ELSE IF bestAlias # 0 THEN AUTHOR_ALIASES[bestAlias].canonical
       ELSE "unknown"

\* the longest folder name is made of MaxPieces pieces
MaxPieces == 3

\* what folder names are made of: alias keys in several spellings, parts of
\* keys, separators, and characters that are dropped or decomposed
Pieces ==
    {
     <<"L", "i", "n", "r">>,
     <<"n", "i", "m", "l", "o", "t", "h">>,
     <<"S", "L", "O", "T", "H">>,
     <<"s", "y", "n", "a">>,
     <<"s", "y", "n", "a", "e">>,
     <<"Q", "i">>,
     <<"s", "e", "l", "i", "n">>,
     <<"8", "6">>,
     <<"_">>,
     <<" ">>,
     <<"x">>,
     <<"Y", "u", "k", "1", "1", "s", "h", "1", "d", "4">>,
     <<"[">>,
     <<"m", "o", "d", "s">>,
     <<"Y", "u", "k", "i", "I", "s", "h", "i", "d", "a">>,
     <<"U+00C9">>,
     <<"U+9F4A">>
    }

RECURSIVE JoinPieces(_)
JoinPieces(ps) == IF ps = <<>> THEN <<>> ELSE Head(ps) \o JoinPieces(Tail(ps))

FolderNames ==
    {JoinPieces(ps) : ps \in UNION {[1..n -> Pieces] : n \in 0..MaxPieces}}

\* no folder name has been looked at
NoInference == [name |-> <<>>, author |-> "", done |-> FALSE]

\* one call of inferAuthorFromFolderName
InferAuthor ==
    /\ ~infer.done
    /\ infer' = [infer EXCEPT !.author = inferAuthorFromFolderName(infer.name),
                              !.done = TRUE]
    /\ UNCHANGED <<pvars, app, wiz, scans, commits, build, pools, run, iout>>

\* inferAuthorFromFolderName on the last segment of author folder d: folder 1
\* carries an alias key, the others do not
DirAuthor(d) == IF d = 1 THEN "Linr" ELSE "unknown"

\* the inferred_author library_author_dirs reports for folder d: the name the
\* wizard infers too, another name, or none
EntryAuthor(d) == IF d = 1 THEN "Linr" ELSE IF d = 2 THEN "X" ELSE ""

AuthorFolder(d) == [folder_path |-> d, inferred_author |-> EntryAuthor(d)]

\* ---------------------------------------------------------------- drafts
Draft(path, name, char, cost) ==
    [folder_path |-> path, display_name |-> name,
     character_id |-> char, costume_id |-> cost]

\* the longest result of the "rich" pool
MaxRaw == 2

\* COSTUMES of canon.ts: the character each costume id belongs to
CostumeCharacter == [c \in 1..4 |-> IF c = 1 THEN 2 ELSE c]

\* CHARACTERS of canon.ts
CharacterIds == 1..4

\* the DraftMod invariant: a costume comes with the character it belongs to
ValidDraft(d) ==
    d.costume_id \notin {NullId, UndefId} =>
        /\ d.character_id \notin {NullId, UndefId}
        /\ d.costume_id \in DOMAIN CostumeCharacter
        /\ CostumeCharacter[d.costume_id] = d.character_id

\* DraftMod values for two folders: ids left out, null or set
RawDrafts ==
    {Draft(path, t[1], t[2], t[3]) :
        path \in {1, 2},
        t \in {<<"x", UndefId, UndefId>>, <<"x", NullId, NullId>>,
               <<"y", 2, 1>>, <<"y", 3, UndefId>>, <<"x", NullId, 1>>}}

\* results of mods_import_dry_run, by the name pools.scan holds: "rich" is
\* every list of up to MaxRaw records that keep the DraftMod invariant,
\* repeated paths included
ScanResults(pool) ==
    IF pool = "rich"
    THEN UNION {[1..n -> {d \in RawDrafts : ValidDraft(d)}] :
                  n \in 0..MaxRaw}
    ELSE {<<>>, <<Draft(1, "x", NullId, NullId)>>}

\* patches the row editors build, by the name pools.patch holds; a field a
\* patch leaves out is Undef / UndefId
Patches(pool) ==
    {[display_name |-> "y", character_id |-> UndefId, costume_id |-> UndefId]}

\* position of the first record with this folder_path, 0 when there is none
RECURSIVE IndexOfPath(_, _, _)
IndexOfPath(seq, path, i) ==
    IF i > Len(seq) THEN 0
    ELSE IF seq[i].folder_path = path THEN i
    ELSE IndexOfPath(seq, path, i + 1)

\* a map that keeps the first record of a path
RECURSIVE MapByPathFirstWins(_, _, _)
MapByPathFirstWins(acc, result, i) ==
    IF i > Len(result) THEN acc
    ELSE MapByPathFirstWins(
            IF IndexOfPath(acc, result[i].folder_path, 1) = 0
            THEN Append(acc, result[i]) ELSE acc,
            result, i + 1)

\* new Map(result.map((r) => [r.folder_path, r])).values(): a key keeps the
\* position of its first record and the value of its last
RECURSIVE MapByPath(_, _, _)
MapByPath(acc, result, i) ==
    IF i > Len(result) THEN acc
    ELSE LET at == IndexOfPath(acc, result[i].folder_path, 1) IN
         MapByPath(IF at = 0 THEN Append(acc, result[i])
                   ELSE [acc EXCEPT ![at] = result[i]],
                   result, i + 1)

\* an id stored as the scan delivered it
NullIfMissingKeeps(id) == id

\* r.character_id ?? null
NullIfMissing(id) == IF id = UndefId THEN NullId ELSE id

\* what dryRun passes to setDrafts
Reconcile(result) ==
    LET deduped == MapByPath(<<>>, result, 1) IN
    [i \in 1..Len(deduped) |->
        [deduped[i] EXCEPT !.character_id = NullIfMissing(@),
                           !.costume_id = NullIfMissing(@)]]

\* the fields of a patch
Patch(name, char, cost) ==
    [display_name |-> name, character_id |-> char, costume_id |-> cost]

\* costumesForChar over the costumes the wizard holds
CostumesForChar(catalog, cid) ==
    IF cid \in {NullId, UndefId} \/ catalog # "loaded" THEN {}
    ELSE {c \in DOMAIN CostumeCharacter : CostumeCharacter[c] = cid}

\* the patches the editors of row d can build, by the name pools.patch
\* holds: "ui" is what the inputs and selects of the row offer, "any" every
\* patch updateRow accepts
RowPatches(pool, d, catalog) ==
    IF pool = "ui"
    THEN {Patch("y", UndefId, UndefId)}
         \cup {Patch(Undef, c, UndefId) :
                 c \in {NullId} \cup
                       (IF catalog = "loaded" THEN CharacterIds ELSE {})}
         \cup (IF d.character_id \in {NullId, UndefId} THEN {}
               ELSE {Patch(Undef, UndefId, k) :
                       k \in {NullId} \cup
                             CostumesForChar(catalog, d.character_id)})
    ELSE IF pool = "any"
    THEN {Patch(n, c, k) : n \in {Undef, "y"}, c \in {UndefId, NullId, 2, 3},
                           k \in {UndefId, NullId, 1, 3}}
    ELSE Patches(pool)

\* an updateRow whose reset gives way to a costume the patch carries
PatchRowHonoursCostume(d, patch) ==
    LET merged ==
            [d EXCEPT
                !.display_name = IF patch.display_name = Undef THEN @
                                 ELSE patch.display_name,
                !.character_id = IF patch.character_id = UndefId THEN @
                                 ELSE patch.character_id,
                !.costume_id = IF patch.costume_id = UndefId THEN @
                               ELSE patch.costume_id]
    IN IF patch.character_id # UndefId /\ patch.costume_id = UndefId
       THEN [merged EXCEPT !.costume_id = NullId]
       ELSE merged

\* an updateRow without the costume reset
PatchRowKeepsCostume(d, patch) ==
    [d EXCEPT
        !.display_name = IF patch.display_name = Undef THEN @
                         ELSE patch.display_name,
        !.character_id = IF patch.character_id = UndefId THEN @
                         ELSE patch.character_id,
        !.costume_id = IF patch.costume_id = UndefId THEN @
                       ELSE patch.costume_id]

\* { ...next[i], ...patch } and the costume reset of updateRow
PatchRow(d, patch) ==
    LET merged ==
            [d EXCEPT
                !.display_name = IF patch.display_name = Undef THEN @
                                 ELSE patch.display_name,
                !.character_id = IF patch.character_id = UndefId THEN @
                                 ELSE patch.character_id,
                !.costume_id = IF patch.costume_id = UndefId THEN @
                               ELSE patch.costume_id]
    IN IF patch.character_id # UndefId
       THEN [merged EXCEPT !.costume_id = NullId]
       ELSE merged

\* ------------------------------------------------- what App passes down
IsBulkMode(a) == a.importMode = "bulk" /\ Len(a.bulkQueue) > 0

HasCurrentBulk(a) == IsBulkMode(a) /\ a.bulkIndex < Len(a.bulkQueue)

\* bulkQueue[bulkIndex], the index counting from 0
CurrentBulk(a) == a.bulkQueue[a.bulkIndex + 1]

\* importWizardKey
ImportWizardKey(a) ==
    IF IsBulkMode(a)
    THEN IF HasCurrentBulk(a) THEN <<"dir", CurrentBulk(a).folder_path>>
         ELSE <<"bulk", a.bulkIndex>>
    ELSE <<"single-import", 0>>

\* the props of <ImportWizard>; an undefined prop is NoDir / ""
PropsOf(a) ==
    [open |-> a.importOpen,
     key |-> ImportWizardKey(a),
     initialAuthorDir |->
        IF IsBulkMode(a)
        THEN IF HasCurrentBulk(a) THEN CurrentBulk(a).folder_path ELSE NoDir
        ELSE a.last_library_pick,
     initialDefaultAuthor |->
        IF HasCurrentBulk(a) THEN CurrentBulk(a).inferred_author ELSE "",
     autoScan |-> IsBulkMode(a)]

\* ------------------------------------------------- ImportWizard's effects
\* the useState initial values and the lastAutoScan ref of a new instance;
\* catalog tells whether characters and costumes hold the catalog or are
\* empty, asked that the instance has called catalog_list
FreshWizard ==
    [authorDir |-> NoDir, defaultAuthor |-> "", defaultUrl |-> "",
     drafts |-> <<>>, busy |-> FALSE, lastAutoScan |-> NoDir,
     catalog |-> "none", asked |-> FALSE]

NoDeps ==
    [mount |-> FALSE, open |-> FALSE, initialAuthorDir |-> FALSE,
     initialDefaultAuthor |-> FALSE, autoScan |-> FALSE,
     authorDir |-> FALSE, defaultAuthor |-> FALSE]

MountDeps == [NoDeps EXCEPT !.mount = TRUE]

\* the props that differ between two renders of one instance
PropDeps(old, new) ==
    [NoDeps EXCEPT
        !.open = old.open # new.open,
        !.initialAuthorDir = old.initialAuthorDir # new.initialAuthorDir,
        !.initialDefaultAuthor =
            old.initialDefaultAuthor # new.initialDefaultAuthor,
        !.autoScan = old.autoScan # new.autoScan]

AnyDep(d) ==
    \/ d.mount \/ d.open \/ d.initialAuthorDir \/ d.initialDefaultAuthor
    \/ d.autoScan \/ d.authorDir \/ d.defaultAuthor

\* the effect on [authorDir]
InferDefaultAuthor(authorDir) ==
    IF authorDir = NoDir THEN "" ELSE DirAuthor(authorDir)

\* a guard that waits for the default author inferred from the folder name
AutoScanGuardWaitsForInferred(w, p) ==
    /\ p.open
    /\ p.autoScan
    /\ p.initialAuthorDir # NoDir
    /\ w.authorDir = p.initialAuthorDir
    /\ ~(p.initialDefaultAuthor # "" /\ w.defaultAuthor # p.initialDefaultAuthor)
    /\ w.defaultAuthor = InferDefaultAuthor(w.authorDir)
    /\ w.lastAutoScan # p.initialAuthorDir

\* the tests the auto-scan effect makes before it calls dryRun
AutoScanGuard(w, p) ==
    /\ p.open
    /\ p.autoScan
    /\ p.initialAuthorDir # NoDir
    /\ w.authorDir = p.initialAuthorDir
    /\ ~(p.initialDefaultAuthor # "" /\ w.defaultAuthor # p.initialDefaultAuthor)
    /\ w.lastAutoScan # p.initialAuthorDir

\* the arguments dryRun reads from the render it was created in
ScanRequest(w) ==
    [live |-> TRUE, authorDir |-> w.authorDir,
     defaultAuthor |-> w.defaultAuthor, defaultUrl |-> w.defaultUrl]

\* the effects of one render, those whose dependencies d changed, in the
\* order they are declared; their state updates form one batch
EffectPass(w, p, d) ==
    LET onAuthorDir == d.mount \/ d.authorDir
        onOpenDir == d.mount \/ d.open \/ d.initialAuthorDir
        onOpenAuthor == d.mount \/ d.open \/ d.initialDefaultAuthor
        onAutoScan == AnyDep(d)
        inferred == IF onAuthorDir THEN InferDefaultAuthor(w.authorDir)
                    ELSE w.defaultAuthor
        seededDir ==
            IF onOpenDir /\ p.open /\ p.initialAuthorDir # NoDir
                         /\ p.initialAuthorDir # w.authorDir
            THEN p.initialAuthorDir ELSE w.authorDir
        seededAuthor ==
            IF onOpenAuthor /\ p.open /\ p.initialDefaultAuthor # ""
            THEN p.initialDefaultAuthor ELSE inferred
        reset == onOpenDir /\ p.open /\ p.initialAuthorDir # NoDir
        refresh == (d.mount \/ d.open) /\ p.open
        scan == onAutoScan /\ AutoScanGuard(w, p)
        issue == scan /\ w.authorDir # NoDir
    IN [w |-> [authorDir |-> seededDir,
               defaultAuthor |-> seededAuthor,
               defaultUrl |-> IF reset THEN "" ELSE w.defaultUrl,
               drafts |-> IF reset THEN <<>> ELSE w.drafts,
               busy |-> IF issue THEN TRUE ELSE w.busy,
               lastAutoScan |->
                   IF onAutoScan /\ ~p.open THEN NoDir
                   ELSE IF scan THEN p.initialAuthorDir
                   ELSE w.lastAutoScan,
               catalog |-> w.catalog,
               asked |-> w.asked \/ refresh],
        scans |-> IF issue THEN <<ScanRequest(w)>> ELSE <<>>]

\* renders and effect passes until no dependency changes any more
RECURSIVE RunEffects(_, _, _, _)
RunEffects(w, p, d, fuel) ==
    IF ~AnyDep(d) \/ fuel = 0 THEN [w |-> w, scans |-> <<>>]
    ELSE LET r == EffectPass(w, p, d)
             rest == RunEffects(r.w, p,
                        [NoDeps EXCEPT
                            !.authorDir = r.w.authorDir # w.authorDir,
                            !.defaultAuthor =
                                r.w.defaultAuthor # w.defaultAuthor],
                        fuel - 1)
         IN [w |-> rest.w, scans |-> r.scans \o rest.scans]

EffectFuel == 6

\* ------------------------------------------------------------ bulk queue
\* the longest listing of the "rich" pool
MaxListing == 2

\* entries of the "rich" pool: folder 2 is reported under two author names
RichEntries ==
    {AuthorFolder(1), AuthorFolder(2), AuthorFolder(3),
     [folder_path |-> 2, inferred_author |-> "Y"]}

\* what library_author_dirs returns for a root, by the name pools.list
\* holds: "rich" is every listing of up to MaxListing entries, in any order
\* and with repeated paths; otherwise no author folder, or all of them
Listings(pool) ==
    IF pool = "rich"
    THEN UNION {[1..n -> RichEntries] : n \in 0..MaxListing}
    ELSE {[i \in 1..n |-> AuthorFolder(i)] : n \in {0, NDirs}}

\* a queue in which a later record replaces the one queued for its path
RECURSIVE MergeAuthorsLastWins(_, _, _)
MergeAuthorsLastWins(queue, authors, i) ==
    IF i > Len(authors) THEN queue
    ELSE LET at == IndexOfPath(queue, authors[i].folder_path, 1) IN
         MergeAuthorsLastWins(
            IF at # 0 THEN [queue EXCEPT ![at] = authors[i]]
            ELSE Append(queue, authors[i]),
            authors, i + 1)

\* the inner loop of startBulkImportFromLibraries: seenFolders holds the
\* folder_path of every queued entry
RECURSIVE MergeAuthors(_, _, _)
MergeAuthors(queue, authors, i) ==
    IF i > Len(authors) THEN queue
    ELSE MergeAuthors(
            IF IndexOfPath(queue, authors[i].folder_path, 1) # 0 THEN queue
            ELSE Append(queue, authors[i]),
            authors, i + 1)

\* insertion of one entry into a queue sorted by folder_path, after the
\* entries that do not compare greater (Array.prototype.sort is stable)
RECURSIVE InsertByPath(_, _)
InsertByPath(sorted, e) ==
    IF sorted = <<>> THEN <<e>>
    ELSE IF sorted[Len(sorted)].folder_path <= e.folder_path
         THEN Append(sorted, e)
         ELSE Append(InsertByPath(SubSeq(sorted, 1, Len(sorted) - 1), e),
                     sorted[Len(sorted)])

\* queue.sort((a, b) => a.folder_path.localeCompare(b.folder_path))
RECURSIVE SortByPath(_)
SortByPath(queue) ==
    IF queue = <<>> THEN <<>>
    ELSE InsertByPath(SortByPath(SubSeq(queue, 1, Len(queue) - 1)),
                      queue[Len(queue)])

\* advanceBulk, run with the bulkIndex and bulkQueue.length of the render
\* that created the callback
AdvanceBulk(a, index, length) ==
    IF index + 1 >= length
    THEN [a EXCEPT !.importMode = "none", !.importOpen = FALSE,
                   !.bulkQueue = <<>>, !.bulkIndex = 0]
    ELSE [a EXCEPT !.importOpen = FALSE, !.bulkIndex = index + 1,
                   !.timers = @ + 1]

\* handleWizardOpenChange(false), run with the importMode, bulkIndex and
\* bulkQueue.length of the render that created the callback
HandleWizardOpenChange(a, mode, index, length) ==
    IF mode = "bulk" THEN AdvanceBulk(a, index, length)
    ELSE [a EXCEPT !.importOpen = FALSE, !.importMode = "none"]

\* the callback the current render hands to the wizard
CloseNow(a) ==
    HandleWizardOpenChange(a, a.importMode, a.bulkIndex, Len(a.bulkQueue))

\* ------------------------------------------------------- step bookkeeping
NoIOut ==
    [op |-> "none", accepted |-> FALSE, alert |-> FALSE, committed |-> FALSE,
     closed |-> FALSE, live |-> FALSE, prevOpen |-> FALSE,
     prevMode |-> "none", prevIndex |-> 0, prevLength |-> 0,
     afterFail |-> FALSE, auto |-> <<>>, heard |-> <<>>, raw |-> <<>>,
     row |-> 0, patch |-> Patch(Undef, UndefId, UndefId), replaced |-> 0,
     before |-> Draft(NoDir, "", NullId, NullId)]

\* a step that ran handleWizardOpenChange(false): what App held before it,
\* and whether the step before it was a failed commit of the open session
CloseOut(op) ==
    [NoIOut EXCEPT !.op = op, !.closed = TRUE, !.prevOpen = app.importOpen,
                   !.prevMode = app.importMode, !.prevIndex = app.bulkIndex,
                   !.prevLength = Len(app.bulkQueue),
                   !.afterFail = (iout.op = "commitFail" /\ iout.live)]

RemoveAt(seq, i) == SubSeq(seq, 1, i - 1) \o SubSeq(seq, i + 1, Len(seq))

\* promises that outlive the instance that made them
OrphanKeepsLive(seq) == seq

\* the promises of an unmounted instance: their state updates are dropped
Orphan(seq) == [i \in 1..Len(seq) |-> [seq[i] EXCEPT !.live = FALSE]]

\* the bulk-run history after a step from App state a to b
RunAfter(a, b, remount, issued) ==
    LET wasOpen == a.importOpen /\ HasCurrentBulk(a)
        nowOpen == b.importOpen /\ HasCurrentBulk(b)
        same == wasOpen /\ nowOpen /\ ~remount /\ a.bulkIndex = b.bulkIndex
        base == IF a.importMode # "bulk" /\ b.importMode = "bulk"
                THEN [opened |-> {}, closed |-> {}, scanned |-> {}]
                ELSE run
    IN [opened |-> base.opened \cup (IF nowOpen THEN {b.bulkIndex} ELSE {}),
        closed |-> base.closed \cup
                   (IF wasOpen /\ ~same THEN {a.bulkIndex} ELSE {}),
        scanned |-> base.scanned \cup
                    (IF issued /\ HasCurrentBulk(b) THEN {b.bulkIndex}
                     ELSE {})]

\* how many mods_import_dry_run promises may be in flight, by the name
\* pools.scan holds: "overlap" leaves room for the scan of an entry that was
\* closed beside the scan of the entry open now
ScanCap(pool) == IF pool = "overlap" THEN MaxScans + 1 ELSE MaxScans

\* the requests of seq with the key of the instance that made them
IssuedBy(seq, key) ==
    [i \in 1..Len(seq) |->
        [live |-> seq[i].live, authorDir |-> seq[i].authorDir,
         defaultAuthor |-> seq[i].defaultAuthor,
         defaultUrl |-> seq[i].defaultUrl, key |-> key]]

\* the render that follows a handler: App holds appNew, the wizard holds
\* wizBase unless its key changed, and the effects run; manual are the scans
\* the handler itself issued, iout'.auto those the auto-scan effect issued
Render(appNew, wizBase, scansBase, manual, commitsBase, out) ==
    LET pOld == PropsOf(app)
        pNew == PropsOf(appNew)
        remount == pNew.key # pOld.key
        deps == IF remount THEN MountDeps
                ELSE [PropDeps(pOld, pNew) EXCEPT
                        !.authorDir = wizBase.authorDir # wiz.authorDir,
                        !.defaultAuthor =
                            wizBase.defaultAuthor # wiz.defaultAuthor]
        r == RunEffects(IF remount THEN FreshWizard ELSE wizBase,
                        pNew, deps, EffectFuel)
        issued == IssuedBy(manual \o r.scans, pNew.key)
    IN /\ appNew.timers <= MaxTimers
       /\ Len(scansBase) + Len(issued) <= ScanCap(pools.scan)
       /\ app' = appNew
       /\ wiz' = r.w
       /\ scans' = (IF remount THEN Orphan(scansBase) ELSE scansBase)
                   \o issued
       /\ commits' = IF remount THEN Orphan(commitsBase) ELSE commitsBase
       /\ run' = RunAfter(app, appNew, remount, issued # <<>>)
       /\ iout' = [out EXCEPT !.auto = r.scans]
       /\ UNCHANGED <<pvars, pools, infer>>

\* ---------------------------------------------------------- ImportWizard
\* the author-folder input and the folder picker
SetAuthorDir ==
    /\ app.importOpen
    /\ \E v \in TypedDirs \ {wiz.authorDir} :
        Render(app, [wiz EXCEPT !.authorDir = v], scans, <<>>, commits,
               [NoIOut EXCEPT !.op = "setAuthorDir"])
    /\ UNCHANGED build

\* a dryRun that asks for a scan whatever the author directory is
DryRunScansAnyway ==
    /\ app.importOpen
    /\ ~wiz.busy
    /\ Render(app, [wiz EXCEPT !.busy = TRUE], scans,
              <<ScanRequest(wiz)>>, commits,
              [NoIOut EXCEPT !.op = "scan", !.accepted = TRUE])
    /\ UNCHANGED build

\* dryRun behind the Scan Folder button, which busy disables
DryRun ==
    /\ app.importOpen
    /\ ~wiz.busy
    /\ IF wiz.authorDir = NoDir
       THEN Render(app, wiz, scans, <<>>, commits,
                   [NoIOut EXCEPT !.op = "scan"])
       ELSE Render(app, [wiz EXCEPT !.busy = TRUE], scans,
                   <<ScanRequest(wiz)>>, commits,
                   [NoIOut EXCEPT !.op = "scan", !.accepted = TRUE])
    /\ UNCHANGED build

\* a dryRun that adds the result to the drafts it already holds
AfterScanKeepsEarlier(w, result) ==
    [w EXCEPT !.drafts = w.drafts \o Reconcile(result), !.busy = FALSE]

\* what dryRun does once mods_import_dry_run has resolved
AfterScan(w, result) == [w EXCEPT !.drafts = Reconcile(result), !.busy = FALSE]

\* a failure path that also drops the drafts
AfterScanFailureClears(w) == [w EXCEPT !.drafts = <<>>, !.busy = FALSE]

\* a failure path without the finally block
AfterScanFailureStaysBusy(w) == w

\* what dryRun does once mods_import_dry_run has rejected
AfterScanFailure(w) == [w EXCEPT !.busy = FALSE]

ScanResolves ==
    /\ \E i \in 1..Len(scans), result \in ScanResults(pools.scan) :
        Render(app,
               IF scans[i].live THEN AfterScan(wiz, result) ELSE wiz,
               RemoveAt(scans, i), <<>>, commits,
               [NoIOut EXCEPT !.op = "scanOk", !.live = scans[i].live,
                              !.raw = IF scans[i].live THEN result
                                      ELSE <<>>,
                              !.replaced = IF scans[i].live
                                           THEN Len(wiz.drafts) ELSE 0])
    /\ UNCHANGED build

ScanRejects ==
    /\ \E i \in 1..Len(scans) :
        Render(app,
               IF scans[i].live THEN AfterScanFailure(wiz) ELSE wiz,
               RemoveAt(scans, i), <<>>, commits,
               [NoIOut EXCEPT !.op = "scanFail", !.live = scans[i].live,
                              !.alert = TRUE])
    /\ UNCHANGED build

\* updateRow from the editors of row i
UpdateRow ==
    /\ app.importOpen
    /\ \E i \in 1..Len(wiz.drafts) :
        \E patch \in RowPatches(pools.patch, wiz.drafts[i], wiz.catalog) :
          Render(app,
                 [wiz EXCEPT !.drafts[i] = PatchRow(wiz.drafts[i], patch)],
                 scans, <<>>, commits,
                 [NoIOut EXCEPT !.op = "updateRow", !.row = i,
                                !.patch = patch, !.before = wiz.drafts[i]])
    /\ UNCHANGED build

\* catalog_list of refreshCatalog resolves
CatalogResolves ==
    /\ wiz.asked
    /\ Render(app, [wiz EXCEPT !.catalog = "loaded"], scans, <<>>, commits,
              [NoIOut EXCEPT !.op = "catalogOk"])
    /\ UNCHANGED build

\* catalog_list of refreshCatalog rejects
CatalogRejects ==
    /\ wiz.asked
    /\ Render(app, [wiz EXCEPT !.catalog = "none"], scans, <<>>, commits,
              [NoIOut EXCEPT !.op = "catalogFail"])
    /\ UNCHANGED build

\* a payload without the drafts
CommitRequestNoDrafts(w, a) ==
    [live |-> TRUE, drafts |-> <<>>, importMode |-> a.importMode,
     bulkIndex |-> a.bulkIndex, length |-> Len(a.bulkQueue)]

\* the payload and the callbacks commitAll closes over
CommitRequest(w, a) ==
    [live |-> TRUE, drafts |-> w.drafts, importMode |-> a.importMode,
     bulkIndex |-> a.bulkIndex, length |-> Len(a.bulkQueue)]

\* a commitAll without its test for an empty list
CommitAllAlwaysSends ==
    /\ app.importOpen
    /\ ~wiz.busy
    /\ Len(commits) < MaxCommits
    /\ Render(app, [wiz EXCEPT !.busy = TRUE], scans, <<>>,
              Append(commits, CommitRequest(wiz, app)),
              [NoIOut EXCEPT !.op = "commit", !.accepted = TRUE])
    /\ UNCHANGED build

\* commitAll behind the Save All button, which busy disables
CommitAll ==
    /\ app.importOpen
    /\ ~wiz.busy
    /\ IF Len(wiz.drafts) = 0
       THEN Render(CloseNow(app), wiz, scans, <<>>, commits,
                   CloseOut("commit"))
       ELSE /\ Len(commits) < MaxCommits
            /\ Render(app, [wiz EXCEPT !.busy = TRUE], scans, <<>>,
                      Append(commits, CommitRequest(wiz, app)),
                      [NoIOut EXCEPT !.op = "commit", !.accepted = TRUE])
    /\ UNCHANGED build

\* what commitAll does once mods_import_commit has resolved
CommitResolves ==
    /\ \E i \in 1..Len(commits) :
        LET c == commits[i] IN
        Render(HandleWizardOpenChange(app, c.importMode, c.bulkIndex,
                                      c.length),
               IF c.live THEN [wiz EXCEPT !.busy = FALSE] ELSE wiz,
               scans, <<>>, RemoveAt(commits, i),
               [CloseOut("commitOk") EXCEPT !.committed = TRUE,
                                            !.live = c.live])
    /\ UNCHANGED build

\* a rejected commit that never reaches setBusy(false)
CommitRejectsStaysBusy ==
    /\ \E i \in 1..Len(commits) :
        Render(app, wiz, scans, <<>>, RemoveAt(commits, i),
               [NoIOut EXCEPT !.op = "commitFail", !.alert = TRUE,
                              !.live = commits[i].live])
    /\ UNCHANGED build

\* what commitAll does once mods_import_commit has rejected
CommitRejects ==
    /\ \E i \in 1..Len(commits) :
        Render(app,
               IF commits[i].live THEN [wiz EXCEPT !.busy = FALSE] ELSE wiz,
               scans, <<>>, RemoveAt(commits, i),
               [NoIOut EXCEPT !.op = "commitFail", !.alert = TRUE,
                              !.live = commits[i].live])
    /\ UNCHANGED build

\* the Cancel button, which busy disables
CancelClick ==
    /\ app.importOpen
    /\ ~wiz.busy
    /\ Render(CloseNow(app), wiz, scans, <<>>, commits, CloseOut("cancel"))
    /\ UNCHANGED build

\* <Dialog onOpenChange={onOpenChange}>: Escape, a click outside, the close
\* button of the dialog
DialogDismiss ==
    /\ app.importOpen
    /\ Render(CloseNow(app), wiz, scans, <<>>, commits, CloseOut("dismiss"))
    /\ UNCHANGED build

\* ------------------------------------------------------------------- App
\* the top bar can be used when no wizard covers it and the timer of
\* advanceBulk, whose delay is 0, has run
TopBarReachable == ~app.importOpen /\ app.timers = 0

\* the Import Mods button
ClickImportMods ==
    /\ TopBarReachable
    /\ Render([app EXCEPT !.importMode = "single", !.importOpen = TRUE],
              wiz, scans, <<>>, commits, [NoIOut EXCEPT !.op = "import"])
    /\ UNCHANGED build

\* the callback of setTimeout in advanceBulk
TimerFires ==
    /\ app.timers > 0
    /\ Render([app EXCEPT !.timers = @ - 1, !.importOpen = TRUE],
              wiz, scans, <<>>, commits, [NoIOut EXCEPT !.op = "timer"])
    /\ UNCHANGED build

\* no library listing is in progress; during one, pos is the root awaited,
\* queue the local queue, and heard what each root before pos answered
NoBuild == [pos |-> 0, queue |-> <<>>, heard |-> <<>>]

\* a start that does not look at bulkBusy and importMode
StartBulkWhileBusy ==
    /\ TopBarReachable
    /\ IF Len(app.library_dirs) = 0
       THEN /\ Render(app, wiz, scans, <<>>, commits,
                      [NoIOut EXCEPT !.op = "startBulk", !.alert = TRUE])
            /\ UNCHANGED build
       ELSE /\ Render([app EXCEPT !.bulkBusy = TRUE], wiz, scans, <<>>,
                      commits,
                      [NoIOut EXCEPT !.op = "startBulk", !.accepted = TRUE])
            /\ build' = [pos |-> 1, queue |-> <<>>, heard |-> <<>>]

\* startBulkImportFromLibraries up to its first await, behind the Scan
\* button of the settings dialog
StartBulk ==
    /\ TopBarReachable
    /\ IF app.bulkBusy \/ app.importMode = "bulk"
       THEN /\ Render(app, wiz, scans, <<>>, commits,
                      [NoIOut EXCEPT !.op = "startBulk"])
            /\ UNCHANGED build
       ELSE IF Len(app.library_dirs) = 0
       THEN /\ Render(app, wiz, scans, <<>>, commits,
                      [NoIOut EXCEPT !.op = "startBulk", !.alert = TRUE])
            /\ UNCHANGED build
       ELSE /\ Render([app EXCEPT !.bulkBusy = TRUE], wiz, scans, <<>>,
                      commits,
                      [NoIOut EXCEPT !.op = "startBulk", !.accepted = TRUE])
            /\ build' = [pos |-> 1, queue |-> <<>>, heard |-> <<>>]

\* an end of the listing that only reports an empty queue
FinishBulkLeavesSession(a, queue) ==
    IF Len(queue) = 0
    THEN [a EXCEPT !.bulkBusy = FALSE]
    ELSE [a EXCEPT !.bulkQueue = SortByPath(queue), !.bulkIndex = 0,
                   !.importMode = "bulk", !.importOpen = TRUE,
                   !.bulkBusy = FALSE]

\* startBulkImportFromLibraries after its loop
FinishBulk(a, queue) ==
    IF Len(queue) = 0
    THEN [a EXCEPT !.bulkQueue = <<>>, !.importMode = "none",
                   !.importOpen = FALSE, !.bulkBusy = FALSE]
    ELSE [a EXCEPT !.bulkQueue = SortByPath(queue), !.bulkIndex = 0,
                   !.importMode = "bulk", !.importOpen = TRUE,
                   !.bulkBusy = FALSE]

\* startBulkImportFromLibraries from the end of one await to the next;
\* heard is build.heard with the answer of the root at build.pos
AfterRoot(queue, heard) ==
    LET failed == ~heard[Len(heard)].ok IN
    IF build.pos < Len(app.library_dirs)
    THEN /\ Render(app, wiz, scans, <<>>, commits,
                   [NoIOut EXCEPT !.op = "listRoot", !.live = ~failed])
         /\ build' = [pos |-> build.pos + 1, queue |-> queue,
                      heard |-> heard]
    ELSE /\ Render(FinishBulk(app, queue), wiz, scans, <<>>, commits,
                   [NoIOut EXCEPT !.op = "bulkBuilt", !.live = ~failed,
                                  !.accepted = Len(queue) > 0,
                                  !.alert = Len(queue) = 0,
                                  !.heard = heard])
         /\ build' = NoBuild

\* library_author_dirs resolves for the root at build.pos
ListRootResolves ==
    /\ build.pos > 0
    /\ \E authors \in Listings(pools.list) :
        AfterRoot(MergeAuthors(build.queue, authors, 1),
                  Append(build.heard, [ok |-> TRUE, authors |-> authors]))

\* a rejection that ends the whole listing
ListRootRejectsAborts ==
    /\ build.pos > 0
    /\ Render([app EXCEPT !.bulkBusy = FALSE], wiz, scans, <<>>, commits,
              [NoIOut EXCEPT !.op = "bulkBuilt", !.alert = TRUE,
                             !.heard = Append(build.heard,
                                         [ok |-> FALSE, authors |-> <<>>])])
    /\ build' = NoBuild

\* library_author_dirs rejects for the root at build.pos
ListRootRejects ==
    /\ build.pos > 0
    /\ AfterRoot(build.queue,
                 Append(build.heard, [ok |-> FALSE, authors |-> <<>>]))

\* the import side of App and the wizard after the first render, with the
\* pools the run draws its inputs from
InitImportNamed(pick, libs, from, named) ==
    /\ app = [importOpen |-> FALSE, importMode |-> "none",
              bulkQueue |-> <<>>, bulkIndex |-> 0, bulkBusy |-> FALSE,
              timers |-> 0, last_library_pick |-> pick,
              library_dirs |-> libs]
    /\ wiz = FreshWizard
    /\ scans = <<>>
    /\ commits = <<>>
    /\ build = NoBuild
    /\ pools = from
    /\ run = [opened |-> {}, closed |-> {}, scanned |-> {}]
    /\ iout = NoIOut
    /\ infer = named

InitImportFrom(pick, libs, from) ==
    InitImportNamed(pick, libs, from, NoInference)

InitImport(pick, libs) ==
    InitImportFrom(pick, libs,
                   [scan |-> "flow", patch |-> "flow", list |-> "flow"])

\* App after its first render: no progress, no job, and the listener effect
\* has called listen() once for the selection of that render
InitController(sel, pool) ==
    /\ previewImagesBusy = FALSE
    /\ previewVideosBusy = FALSE
    /\ previewProgress = NoProgress
    /\ previewCancelRequested = FALSE
    /\ selectedModId = sel
    /\ startsPending = [image |-> 0, video |-> 0]
    /\ listeners = <<[state |-> "pending", sel |-> sel]>>
    /\ eventPool = pool
    /\ pout = NoOut

\* the controller under one subscription: the selection does not change
InitPreview ==
    /\ \E sel \in {NoMod} \cup Mods : InitController(sel, "all")
    /\ InitImport(NoDir, <<>>)

NextPreview ==
    \/ \E kind \in Kinds : GeneratePreview(kind)
    \/ StartResolves
    \/ StartFails
    \/ PreviewEvent
    \/ CancelPreviewGeneration
    \/ ClearPreviewProgress
    \/ ListenResolves
    \/ ListenRejects

SpecPreview == InitPreview /\ [][NextPreview]_vars

\* author inference applied to one folder name
InitInfer ==
    /\ InitController(NoMod, "bare")
    /\ \E name \in FolderNames :
          InitImportNamed(NoDir, <<>>,
                          [scan |-> "flow", patch |-> "flow", list |-> "flow"],
                          [NoInference EXCEPT !.name = name])

NextInfer == InferAuthor

SpecInfer == InitInfer /\ [][NextInfer]_vars

\* the controller fed by a backend whose counters never fall within a job
InitMonotone ==
    /\ \E sel \in {NoMod} \cup Mods : InitController(sel, "mono")
    /\ InitImport(NoDir, <<>>)

NextMonotone ==
    \/ \E kind \in Kinds : ClickCreatePreview(kind)
    \/ StartResolves
    \/ StartFails
    \/ PreviewEvent
    \/ CancelPreviewGeneration
    \/ ClearPreviewProgress
    \/ ListenResolves
    \/ ListenRejects

SpecMonotone == InitMonotone /\ [][NextMonotone]_vars

\* the controller with the listener effect re-run by selection changes
InitListener ==
    /\ InitController(NoMod, "bare")
    /\ InitImport(NoDir, <<>>)

NextListener ==
    \/ NextPreview
    \/ HandleSelectMod
    \/ DeselectMissing

SpecListener == InitListener /\ [][NextListener]_vars


\* the import flow: single and bulk sessions over the configured roots
InitFlow ==
    /\ InitController(NoMod, "bare")
    /\ \E pick \in TypedDirs : InitImport(pick, <<"r1">>)

NextFlow ==
    \/ ClickImportMods
    \/ StartBulk
    \/ ListRootResolves
    \/ ListRootRejects
    \/ TimerFires
    \/ SetAuthorDir
    \/ DryRun
    \/ ScanResolves
    \/ ScanRejects
    \/ UpdateRow
    \/ CommitAll
    \/ CommitResolves
    \/ CommitRejects
    \/ CancelClick
    \/ DialogDismiss

SpecFlow == InitFlow /\ [][NextFlow]_vars

\* the bulk queue built from two roots with any listings, and its traversal
InitBuild ==
    /\ InitController(NoMod, "bare")
    /\ InitImportFrom(NoDir, <<"r1", "r2">>,
                      [scan |-> "flow", patch |-> "flow", list |-> "rich"])

NextBuild ==
    \/ StartBulk
    \/ ListRootResolves
    \/ ListRootRejects
    \/ TimerFires
    \/ ScanResolves
    \/ CancelClick

SpecBuild == InitBuild /\ [][NextBuild]_vars

\* one single import over a picked folder: any scan result, the edits the
\* row editors offer, and the catalog arriving, failing and being refreshed
\* a bulk run whose sessions can be dismissed while their scan is pending
InitOverlap ==
    /\ InitController(NoMod, "bare")
    /\ InitImportFrom(NoDir, <<"r1">>,
                      [scan |-> "overlap", patch |-> "flow", list |-> "flow"])

NextOverlap ==
    \/ StartBulk
    \/ ListRootResolves
    \/ TimerFires
    \/ ScanResolves
    \/ ScanRejects
    \/ CancelClick
    \/ DialogDismiss

SpecOverlap == InitOverlap /\ [][NextOverlap]_vars

InitDrafts ==
    /\ InitController(NoMod, "bare")
    /\ InitImportFrom(1, <<>>,
                      [scan |-> "rich", patch |-> "ui", list |-> "flow"])

NextDrafts ==
    \/ ClickImportMods
    \/ DryRun
    \/ ScanResolves
    \/ UpdateRow
    \/ CatalogResolves
    \/ CatalogRejects
    \/ CancelClick

SpecDrafts == InitDrafts /\ [][NextDrafts]_vars

\* updateRow applied to any row with any patch
InitPatch ==
    /\ InitController(NoMod, "bare")
    /\ InitImportFrom(1, <<>>,
                      [scan |-> "flow", patch |-> "any", list |-> "flow"])

NextPatch ==
    \/ ClickImportMods
    \/ DryRun
    \/ ScanResolves
    \/ UpdateRow

SpecPatch == InitPatch /\ [][NextPatch]_vars

\* ------------------------------------------------------------ properties
\* a start call made while a job of either kind is busy
StartWhileBusy ==
    /\ pout'.op = "start"
    /\ previewImagesBusy \/ previewVideosBusy

\* C1: a start call made while a job of either kind is busy invokes no
\* generation command and leaves the busy flags, the progress and the cancel
\* flag as they were; the image and the video flag are never both set
C1_StartMutuallyExclusive ==
    /\ [](~(previewImagesBusy /\ previewVideosBusy))
    /\ [][StartWhileBusy =>
            /\ ~pout'.accepted
            /\ pout'.invoked = 0
            /\ UNCHANGED <<previewImagesBusy, previewVideosBusy,
                           previewProgress, previewCancelRequested,
                           startsPending>>]_vars

\* C1: start("video") has just been refused while the image job is busy
C1_Witness ==
    /\ pout.op = "start"
    /\ pout.kind = "video"
    /\ ~pout.accepted
    /\ previewImagesBusy
    /\ previewProgress.kind = "image"

\* C2: at any time at most one handler is subscribed to preview-progress,
\* and no delivered event is handled more than once
C2_SingleSubscription ==
    /\ Cardinality(SubscribedHandlers) <= 1
    /\ pout.op = "event" => pout.handled <= 1

\* C3: in a bulk run the session of an entry is opened, and its scan is
\* issued, only after the session of the entry before it has closed
C3_OneSessionAtATime ==
    /\ \A i \in run.opened : i > 0 => (i - 1) \in run.closed
    /\ \A i \in run.scanned : i > 0 => (i - 1) \in run.closed
    /\ run.scanned \subseteq run.opened

\* C4: a close of the open session in bulk mode moves bulkIndex on by
\* exactly one, and the close of the last entry leaves bulk mode with an
\* empty queue, index 0 and the wizard closed for good
C4_CloseAdvancesByOne ==
    (iout.closed /\ iout.prevOpen /\ iout.prevMode = "bulk"
                 /\ iout.prevLength > 0) =>
        IF iout.prevIndex + 1 >= iout.prevLength
        THEN /\ app.importMode = "none"
             /\ app.bulkQueue = <<>>
             /\ app.bulkIndex = 0
             /\ ~app.importOpen
             /\ app.timers = 0
        ELSE /\ app.bulkIndex = iout.prevIndex + 1
             /\ app.importMode = "bulk"

\* C5: a commit starts only when no scan of the session is in flight, and
\* the session closes only when no commit is in flight
C5_ScanCommitCloseOrder ==
    /\ (iout.op = "commit" /\ iout.accepted) =>
            \A i \in 1..Len(scans) : ~scans[i].live
    /\ iout.closed => commits = <<>>

\* C6: when mods_import_commit rejects, the session is open, its drafts are
\* those the commit was called with, busy is false, the imported callback
\* has not run, and Save All can be used again
C6_CommitFailureKeepsSession ==
    [][iout'.op = "commitFail" =>
        /\ app'.importOpen
        /\ \E i \in 1..Len(commits) :
             /\ commits' = RemoveAt(commits, i)
             /\ wiz'.drafts = commits[i].drafts
        /\ ~wiz'.busy
        /\ ~iout'.committed
        /\ Len(wiz'.drafts) > 0]_vars

\* C7: Save All on a non-empty list sends mods_import_commit once, with the
\* drafts of that moment; nothing else sends it; when it resolves the wizard
\* is closed and the imported callback has run, and nothing else runs it
C7_CommitSendsAllDrafts ==
    [][/\ (iout'.op = "commit" /\ iout'.accepted) =>
            /\ Len(wiz.drafts) > 0
            /\ commits' = Append(commits, commits'[Len(commits')])
            /\ commits'[Len(commits')].drafts = wiz.drafts
       /\ Len(commits') > Len(commits) =>
            (iout'.op = "commit" /\ iout'.accepted)
       /\ iout'.op = "commitOk" =>
            /\ ~app'.importOpen
            /\ iout'.committed
            /\ iout'.closed
            /\ Len(commits') = Len(commits) - 1
       /\ iout'.committed => iout'.op = "commitOk"]_vars

\* C7: a commit that carried an edited draft has resolved
C7_Witness ==
    /\ iout.op = "commitOk"
    /\ iout.live
    /\ ~app.importOpen
    /\ Len(wiz.drafts) > 0
    /\ wiz.drafts[1].display_name = "y"

\* C8: Save All on an empty list closes the wizard, sends no
\* mods_import_commit, leaves busy false and does not run the imported
\* callback
C8_EmptyCommitCloses ==
    [][(iout'.op = "commit" /\ Len(wiz.drafts) = 0) =>
        /\ ~iout'.accepted
        /\ iout'.closed
        /\ ~app'.importOpen
        /\ Len(commits') = Len(commits)
        /\ \A i \in 1..Len(commits) : commits'[i].drafts = commits[i].drafts
        /\ ~wiz'.busy
        /\ ~iout'.committed]_vars

\* C8: Save All has closed a bulk session whose scan found nothing
C8_Witness ==
    /\ iout.op = "commit"
    /\ iout.closed
    /\ iout.prevMode = "bulk"
    /\ ~app.importOpen
    /\ commits = <<>>

\* C9: when mods_import_dry_run rejects, the error is shown, the drafts and
\* the scan inputs of the session are what they were, and busy is false, so
\* that Scan Folder can be used again
C9_ScanFailureKeepsDrafts ==
    [][iout'.op = "scanFail" =>
        /\ iout'.alert
        /\ wiz'.drafts = wiz.drafts
        /\ wiz'.authorDir = wiz.authorDir
        /\ iout'.live => ~wiz'.busy
        /\ ~iout'.live => wiz' = wiz
        /\ app' = app]_vars

\* C9: a re-scan has failed in a session that holds drafts
C9_Witness ==
    /\ iout.op = "scanFail"
    /\ iout.live
    /\ iout.alert
    /\ app.importOpen
    /\ Len(wiz.drafts) > 0
    /\ wiz.authorDir # NoDir
    /\ ~wiz.busy

\* a step that opens a session
SessionOpens == iout.op \in {"import", "timer", "bulkBuilt"} /\ app.importOpen

\* C10: a session that opens holds no drafts, so that none of an earlier
\* session can be committed by it
C10_SessionStartsEmpty == SessionOpens => wiz.drafts = <<>>

\* C16: a library listing that ends with an empty merged queue leaves the
\* queue empty, the import mode unset and the wizard closed; one that ends
\* with entries enters bulk mode at index 0 with the wizard open on the
\* first entry
C16_EmptyQueueStaysOut ==
    iout.op = "bulkBuilt" =>
        IF iout.accepted
        THEN /\ app.importMode = "bulk"
             /\ app.bulkQueue # <<>>
             /\ app.bulkIndex = 0
             /\ app.importOpen
             /\ PropsOf(app).initialAuthorDir = app.bulkQueue[1].folder_path
             /\ wiz.authorDir = app.bulkQueue[1].folder_path
        ELSE /\ iout.alert
             /\ app.bulkQueue = <<>>
             /\ app.importMode = "none"
             /\ ~app.importOpen

\* C16: a listing without author folders has ended while a single import
\* was open
C16_Witness ==
    /\ iout.op = "bulkBuilt"
    /\ ~iout.accepted
    /\ iout.alert
    /\ wiz.authorDir # NoDir
    /\ ~app.importOpen

\* C19: an accepted start has published the running record of its kind with
\* all counters 0 and the preparing message, has cleared the cancel flag and
\* has invoked the generation command once
C19_StartPublishesRunning ==
    (pout.op = "start" /\ pout.accepted) =>
        /\ previewProgress =
              [kind |-> pout.kind, status |-> "running", total |-> 0,
               processed |-> 0, generated |-> 0, skipped |-> 0, errors |-> 0,
               current_mod |-> Undef, message |-> PreparingMessage(pout.kind)]
        /\ ~previewCancelRequested
        /\ pout.invoked = 1
        /\ startsPending[pout.kind] >= 1

\* C19: a video job has been started over the finished record of an image
\* job
C19_Witness ==
    /\ pout.op = "start"
    /\ pout.accepted
    /\ pout.kind = "video"
    /\ previewVideosBusy
    /\ previewProgress.status = "running"
    /\ startsPending.image = 1

\* a text field after a handled event: the event's value, else the stored
\* one, where null and a field left out both count as no value
StickyText(new, old) ==
    IF new \notin {Undef, Null} THEN new
    ELSE IF old \in {Undef, Null} THEN Null ELSE old

\* C20: a handled event replaces kind, status and the five counters by its
\* own; message and current_mod take the event's value when it has one and
\* keep the stored value otherwise
C20_EventMergeSticky ==
    [][(pout'.op = "event" /\ pout'.handled > 0) =>
        /\ previewProgress'.kind = pout'.payload.kind
        /\ previewProgress'.status = pout'.payload.status
        /\ previewProgress'.total = pout'.payload.total
        /\ previewProgress'.processed = pout'.payload.processed
        /\ previewProgress'.generated = pout'.payload.generated
        /\ previewProgress'.skipped = pout'.payload.skipped
        /\ previewProgress'.errors = pout'.payload.errors
        /\ previewProgress'.message =
              StickyText(pout'.payload.message,
                         IF previewProgress = NoProgress THEN Null
                         ELSE previewProgress.message)
        /\ previewProgress'.current_mod =
              StickyText(pout'.payload.current_mod,
                         IF previewProgress = NoProgress THEN Null
                         ELSE previewProgress.current_mod)]_vars

\* C20: an event without a message has been handled and the stored message
\* is still there
C20_Witness ==
    /\ pout.op = "event"
    /\ pout.handled > 0
    /\ pout.payload.message = Null
    /\ pout.payload.current_mod = "mod"
    /\ previewProgress.message = "msg"
    /\ previewProgress.current_mod = "mod"

\* C18: after a failed commit of the open session of a bulk entry the wizard
\* is not busy, so it can be closed, and a close through Cancel or a
\* dismissal right after the failure leaves bulk mode on the last entry and
\* otherwise closes the wizard, moves the index up by one and arms the timer
\* that opens the next entry
C18_FailureDoesNotBlockClose ==
    /\ (iout.op = "commitFail" /\ iout.live /\ app.importOpen
            /\ HasCurrentBulk(app)) => ~wiz.busy
    /\ (iout.op \in {"cancel", "dismiss"} /\ iout.afterFail /\ iout.prevOpen
            /\ iout.prevMode = "bulk") =>
          IF iout.prevIndex + 1 >= iout.prevLength
          THEN /\ app.importMode = "none"
               /\ ~app.importOpen
               /\ app.bulkQueue = <<>>
               /\ app.bulkIndex = 0
          ELSE /\ app.importMode = "bulk"
               /\ ~app.importOpen
               /\ app.bulkIndex = iout.prevIndex + 1
               /\ Len(app.bulkQueue) = iout.prevLength
               /\ app.timers >= 1

\* C18: the session of a bulk entry that is not the last one has been
\* closed with Cancel right after its commit failed
C18_Witness ==
    /\ iout.op = "cancel"
    /\ iout.afterFail
    /\ iout.prevMode = "bulk"
    /\ iout.prevOpen
    /\ iout.prevIndex + 1 < iout.prevLength
    /\ app.bulkIndex = iout.prevIndex + 1

\* C17: a step in which the auto-scan effect issues a scan opens the session
\* of the current bulk entry, issues one scan only, and that scan carries
\* the entry's folder_path as author directory and the entry's
\* inferred_author as default author
C17_AutoScanSettled ==
    [][iout'.auto # <<>> =>
        /\ Len(iout'.auto) = 1
        /\ app'.importOpen
        /\ HasCurrentBulk(app')
        /\ ~(app.importOpen /\ ImportWizardKey(app) = ImportWizardKey(app'))
        /\ iout'.auto[1].authorDir = CurrentBulk(app').folder_path
        /\ iout'.auto[1].defaultAuthor = CurrentBulk(app').inferred_author
      ]_vars

\* the records the roots answered, in root order
RECURSIVE Flatten(_, _)
Flatten(heard, k) ==
    IF k > Len(heard) THEN <<>>
    ELSE heard[k].authors \o Flatten(heard, k + 1)

\* C14: the queue a finished listing stores is strictly ascending by
\* folder_path, holds exactly the paths the roots answered, and holds for
\* each path the first record with that path in root order
C14_QueueDedupedSorted ==
    iout.op = "bulkBuilt" =>
        LET q == app.bulkQueue
            h == Flatten(iout.heard, 1)
        IN /\ \A i \in 1..(Len(q) - 1) :
                 q[i].folder_path < q[i + 1].folder_path
           /\ {q[i].folder_path : i \in 1..Len(q)} =
                 {h[j].folder_path : j \in 1..Len(h)}
           /\ \A i \in 1..Len(q) :
                 q[i] = h[IndexOfPath(h, q[i].folder_path, 1)]

\* C14: two roots have answered the same folder under different author
\* names, the second root first reporting a folder that sorts after it
C14_Witness ==
    /\ iout.op = "bulkBuilt"
    /\ Len(iout.heard) = 2
    /\ iout.heard[1].authors = <<AuthorFolder(2)>>
    /\ iout.heard[2].authors =
          <<AuthorFolder(1), [folder_path |-> 2, inferred_author |-> "Y"]>>
    /\ app.bulkQueue = <<AuthorFolder(1), AuthorFolder(2)>>

\* C15: a listing ends only after every configured root has answered or
\* failed, and the queue it stores holds every folder answered by a root
\* that did not fail
C15_FailedRootSkipped ==
    iout.op = "bulkBuilt" =>
        /\ Len(iout.heard) = Len(app.library_dirs)
        /\ \A k \in 1..Len(iout.heard) :
              iout.heard[k].ok =>
                \A j \in 1..Len(iout.heard[k].authors) :
                  \E i \in 1..Len(app.bulkQueue) :
                    app.bulkQueue[i].folder_path =
                        iout.heard[k].authors[j].folder_path

\* C15: the first root has failed and the folders of the second are queued
C15_Witness ==
    /\ iout.op = "bulkBuilt"
    /\ Len(iout.heard) = 2
    /\ ~iout.heard[1].ok
    /\ iout.heard[2].ok
    /\ Len(iout.heard[2].authors) = 2
    /\ Len(app.bulkQueue) = 2
    /\ app.importMode = "bulk"

\* position of the last record with this folder_path, 0 when there is none
RECURSIVE LastIndexOfPath(_, _, _)
LastIndexOfPath(seq, path, i) ==
    IF i = 0 THEN 0
    ELSE IF seq[i].folder_path = path THEN i
    ELSE LastIndexOfPath(seq, path, i - 1)

\* the drafts hold one record for each folder_path of the raw result and no
\* other record
OnePerPath(drafts, raw) ==
    /\ \A i, j \in 1..Len(drafts) :
          drafts[i].folder_path = drafts[j].folder_path => i = j
    /\ {drafts[i].folder_path : i \in 1..Len(drafts)} =
          {raw[j].folder_path : j \in 1..Len(raw)}

\* C11 as stated: after a scan the drafts hold one record per folder_path
\* of the raw result, and that record is the last raw record with the path
C11_LastRecordKept ==
    (iout.op = "scanOk" /\ iout.live) =>
        /\ OnePerPath(wiz.drafts, iout.raw)
        /\ \A i \in 1..Len(wiz.drafts) :
              wiz.drafts[i] =
                iout.raw[LastIndexOfPath(iout.raw, wiz.drafts[i].folder_path,
                                         Len(iout.raw))]

\* C11 amended: after a scan the drafts hold one record per folder_path of
\* the raw result, and that record is the last raw record with the path
\* with a character_id or costume_id that was left out set to null
C11_LastRecordKeptNormalised ==
    (iout.op = "scanOk" /\ iout.live) =>
        /\ OnePerPath(wiz.drafts, iout.raw)
        /\ \A i \in 1..Len(wiz.drafts) :
              LET last == iout.raw[LastIndexOfPath(iout.raw,
                                      wiz.drafts[i].folder_path,
                                      Len(iout.raw))]
              IN wiz.drafts[i] =
                   [last EXCEPT
                      !.character_id = IF @ = UndefId THEN NullId ELSE @,
                      !.costume_id = IF @ = UndefId THEN NullId ELSE @]

\* C11: a result with two records of one folder has been reconciled: the
\* second record is kept, its costume_id that was left out now null
C11_Witness ==
    /\ iout.op = "scanOk"
    /\ iout.live
    /\ iout.raw = <<Draft(1, "y", 2, 1), Draft(1, "y", 3, UndefId)>>
    /\ wiz.drafts = <<Draft(1, "y", 3, NullId)>>

\* C12: after updateRow with a patch that carries a character_id the row
\* holds that character_id and costume_id null, whatever costume_id the row
\* had and whatever costume_id the patch carries
C12_CharacterPatchClearsCostume ==
    (iout.op = "updateRow" /\ iout.patch.character_id # UndefId) =>
        /\ wiz.drafts[iout.row].character_id = iout.patch.character_id
        /\ wiz.drafts[iout.row].costume_id = NullId

\* C12: a row that had a costume has been patched with a character and
\* another costume at once
C12_Witness ==
    /\ iout.op = "updateRow"
    /\ iout.before.costume_id = 3
    /\ iout.patch.character_id = 2
    /\ iout.patch.costume_id = 1
    /\ wiz.drafts[iout.row].costume_id = NullId

\* C13: every draft of the wizard that has a costume has a character, and
\* the costume is one of that character
C13_CostumeBelongsToCharacter ==
    \A i \in 1..Len(wiz.drafts) : ValidDraft(wiz.drafts[i])

\* C13: a row scanned with character 2 and costume 1 was moved to another
\* character and has now been given costume 3 of character 3
C13_Witness ==
    /\ iout.op = "updateRow"
    /\ iout.patch.costume_id = 3
    /\ iout.before.character_id = 3
    /\ iout.before.display_name = "y"
    /\ iout.before.folder_path = 2
    /\ wiz.drafts[iout.row] = Draft(2, "y", 3, 3)
    /\ wiz.catalog = "loaded"

\* the ids a handled terminal event asks a preview refresh for
Refreshed == {pout'.loads[i] : i \in 1..Len(pout'.loads)}

\* C21: a handled event whose status is not running clears the busy flag of
\* its kind and leaves the other flag alone, and asks a preview refresh for
\* the mod selected at that moment and for no other; without a selected mod
\* it asks for none
C21_TerminalEventClearsAndRefreshes ==
    [][(pout'.op = "event" /\ pout'.handled > 0
            /\ pout'.payload.status # "running") =>
        /\ pout'.payload.kind = "image" =>
              /\ ~previewImagesBusy'
              /\ previewVideosBusy' = previewVideosBusy
        /\ pout'.payload.kind = "video" =>
              /\ ~previewVideosBusy'
              /\ previewImagesBusy' = previewImagesBusy
        /\ Refreshed = {selectedModId} \ {NoMod}
      ]_vars

\* C22: a cancel call made without a progress record, or with one that is
\* not running, changes neither the cancel flag nor the record nor the busy
\* flags and sends no cancellation request
C22_CancelWhenIdleIsNoOp ==
    [][(pout'.op = "cancel"
            /\ (previewProgress = NoProgress
                  \/ previewProgress.status # "running")) =>
        /\ ~pout'.accepted
        /\ pout'.cancelSent = "none"
        /\ UNCHANGED <<previewCancelRequested, previewProgress,
                       previewImagesBusy, previewVideosBusy>>
      ]_vars

\* C22: cancel has been called on the record of a finished job with counts
C22_Witness ==
    /\ pout.op = "cancel"
    /\ ~pout.accepted
    /\ previewProgress.status = "done"
    /\ previewProgress.total = 1
    /\ ~previewCancelRequested

\* a cancel call made while the stored progress is running
CancelWhileRunning ==
    /\ pout'.op = "cancel"
    /\ previewProgress # NoProgress
    /\ previewProgress.status = "running"

\* the stored progress is running, a cancellation has been requested, and
\* the next state shows no running job
ShownStoppedAfterCancel ==
    /\ previewProgress.status = "running"
    /\ previewCancelRequested
    /\ previewProgress'.status # "running"

C24_ClearOnlyWhenNotRunning ==
    [][/\ pout'.op = "clear" =>
            /\ previewProgress # NoProgress
            /\ previewProgress.status # "running"
            /\ previewProgress' = NoProgress
            /\ ~previewCancelRequested'
       /\ previewProgress.status = "running" => previewProgress' # NoProgress
      ]_vars

\* C24: the record of a cancelled job has been cleared
C24_Witness ==
    /\ pout.op = "clear"
    /\ previewProgress = NoProgress
    /\ ~previewCancelRequested
    /\ ~previewImagesBusy
    /\ ~previewVideosBusy

C26_CountersNeverFall ==
    [][/\ previewProgress'.total >= 0
       /\ previewProgress'.processed >= 0
       /\ previewProgress'.generated >= 0
       /\ previewProgress'.skipped >= 0
       /\ previewProgress'.errors >= 0
       /\ (previewProgress.status = "running"
              /\ previewProgress'.status = "running") =>
            CountersAtLeast(previewProgress', previewProgress)
      ]_vars

\* C26: cancel has been asked of a running job that has reported counts
C26_Witness ==
    /\ pout.op = "cancel"
    /\ pout.accepted
    /\ previewProgress.status = "running"
    /\ previewProgress.total = 1
    /\ previewProgress.processed = 1

\* C27: a dryRun called while the author directory is empty asks for no
\* scan, does not set busy and leaves the drafts and the rest of the
\* session as they were
C27_ScanWithoutDirIsNoOp ==
    [][(iout'.op = "scan" /\ wiz.authorDir = NoDir) =>
            /\ ~iout'.accepted
            /\ scans' = scans
            /\ wiz'.busy = wiz.busy
            /\ wiz'.drafts = wiz.drafts
            /\ wiz' = wiz
      ]_vars

\* C27: dryRun has been called on a session that holds drafts and whose
\* author directory is empty
C27_Witness ==
    /\ iout.op = "scan"
    /\ ~iout.accepted
    /\ wiz.authorDir = NoDir
    /\ ~wiz.busy
    /\ Len(wiz.drafts) > 0

\* a raw record as a draft: ids that were left out are null
AsStored(r) ==
    [r EXCEPT !.character_id = IF @ = UndefId THEN NullId ELSE @,
              !.costume_id = IF @ = UndefId THEN NullId ELSE @]

\* C28: when a scan resolves for a session that holds drafts, the drafts
\* afterwards are records of the result only: none of the earlier drafts
\* and none of the edits made to them is kept
C28_RescanReplacesDrafts ==
    [][(iout'.op = "scanOk" /\ iout'.live /\ Len(wiz.drafts) > 0) =>
            /\ Len(wiz'.drafts) <= Len(iout'.raw)
            /\ \A i \in 1..Len(wiz'.drafts) :
                  \E j \in 1..Len(iout'.raw) :
                      wiz'.drafts[i] = AsStored(iout'.raw[j])
      ]_vars

\* C28: a scan that found one folder has resolved for a session that held
\* two drafts
C28_Witness ==
    /\ iout.op = "scanOk"
    /\ iout.live
    /\ iout.replaced = 2
    /\ Len(iout.raw) = 1
    /\ Len(wiz.drafts) = 1

\* C29: after a scan has resolved, character_id and costume_id of every
\* draft are a number or null, never undefined
C29_IdsNumberOrNull ==
    (iout.op = "scanOk" /\ iout.live) =>
        \A i \in 1..Len(wiz.drafts) :
            /\ wiz.drafts[i].character_id # UndefId
            /\ wiz.drafts[i].costume_id # UndefId
            /\ wiz.drafts[i].character_id >= NullId
            /\ wiz.drafts[i].costume_id >= NullId

\* C29: a scan has resolved with two folders, one of them without ids
C29_Witness ==
    /\ iout.op = "scanOk"
    /\ iout.live
    /\ Len(iout.raw) = 2
    /\ Len(wiz.drafts) = 2
    /\ iout.raw[2].character_id = UndefId
    /\ iout.raw[2].costume_id = UndefId
    /\ wiz.drafts[2].character_id = NullId
    /\ wiz.drafts[2].costume_id = NullId

\* the entries of AUTHOR_ALIASES whose key occurs in the sanitized name
Matching(sanitized) ==
    {i \in 1..Len(AUTHOR_ALIASES) :
        Includes(sanitized, AUTHOR_ALIASES[i].alias)}

\* C30: the inferred author is "unknown" when the normalized folder name is
\* empty or holds no alias key, and otherwise the canonical name of a
\* matching key that no other matching key exceeds in length
C30_LongestAliasWins ==
    infer.done =>
        LET sanitized == Sanitize(infer.name)
            found == Matching(sanitized)
        IN IF sanitized = <<>> \/ found = {}
           THEN infer.author = "unknown"
           ELSE \E i \in found :
                  /\ \A j \in found :
                        Len(AUTHOR_ALIASES[j].alias) <=
                          Len(AUTHOR_ALIASES[i].alias)
                  /\ infer.author = AUTHOR_ALIASES[i].canonical

\* C30: the author of a folder name that holds linr and nimloth has been
\* inferred
C30_Witness ==
    /\ infer.done
    /\ infer.author = "Nimloth"
    /\ Matching(Sanitize(infer.name)) = {3, 7}

\* the folder name "Yuk11sh1d4_mods"
HandleWithMods == <<"Y", "u", "k", "1", "1", "s", "h", "1", "d", "4", "_", "m", "o", "d", "s">>

\* the folder name "YukiIshida_mods"
AliasWithMods == <<"Y", "u", "k", "i", "I", "s", "h", "i", "d", "a", "_", "m", "o", "d", "s">>

\* C31 as stated: the author inferred from "Yuk11sh1d4_mods" is Yuk11sh1d4
C31_HandleYieldsCanonical ==
    (infer.done /\ infer.name = HandleWithMods) =>
        infer.author = "Yuk11sh1d4"

\* C31 amended: the author inferred from "Yuk11sh1d4_mods" is "unknown",
\* its normalized form holding no alias key, and the author inferred from
\* "YukiIshida_mods", which holds the key yukiishida, is Yuk11sh1d4
C31_HandleUnknownAliasCanonical ==
    /\ (infer.done /\ infer.name = HandleWithMods) =>
            /\ Matching(Sanitize(infer.name)) = {}
            /\ infer.author = "unknown"
    /\ (infer.done /\ infer.name = AliasWithMods) =>
            /\ Matching(Sanitize(infer.name)) = {2}
            /\ infer.author = "Yuk11sh1d4"

\* C31: the author of "Yuk11sh1d4_mods" has been inferred
C31_Witness ==
    /\ infer.done
    /\ infer.name = HandleWithMods
    /\ infer.author = "unknown"

C33_ResolvedLeavesNotBusy ==
    [][/\ (iout'.op \in {"scanOk", "scanFail", "commitOk", "commitFail"}
              /\ iout'.live) => ~wiz'.busy
       /\ (build # NoBuild /\ build' = NoBuild) => ~app'.bulkBusy
      ]_vars

\* C33: a commit of the mounted session has been rejected and the session is
\* open, holds its drafts and is not busy
C33_Witness ==
    /\ iout.op = "commitFail"
    /\ iout.live
    /\ iout.alert
    /\ app.importOpen
    /\ Len(wiz.drafts) > 0
    /\ ~wiz.busy
    /\ ~app.bulkBusy

\* C34: each busy flag is set exactly when a progress record exists that is
\* running and of the kind of the flag
C34_BusyIffRunning ==
    /\ previewImagesBusy <=>
          (previewProgress.status = "running"
             /\ previewProgress.kind = "image")
    /\ previewVideosBusy <=>
          (previewProgress.status = "running"
             /\ previewProgress.kind = "video")

\* the step opens the session of a bulk entry that was not open before it
BulkSessionOpens ==
    /\ app'.importOpen
    /\ HasCurrentBulk(app')
    /\ ~(app.importOpen /\ HasCurrentBulk(app)
            /\ app.bulkIndex = app'.bulkIndex)

\* the step leaves bulk mode
BulkModeEnds == app.importMode = "bulk" /\ app'.importMode # "bulk"

\* C35: the session of bulk entry i opens when exactly the entries before i
\* have been opened in this run, so every entry is opened once and in queue
\* order; and when bulk mode ends every entry of the queue has been opened
\* and closed
C35_EachEntryOnceInOrder ==
    [][/\ BulkSessionOpens =>
            (IF app.importMode = "bulk" THEN run.opened ELSE {}) =
                0..(app'.bulkIndex - 1)
       /\ BulkModeEnds =>
            /\ run'.opened = 0..(Len(app.bulkQueue) - 1)
            /\ run'.closed = 0..(Len(app.bulkQueue) - 1)
      ]_vars

\* a bulk run has ended since the wizard was last opened alone
AfterBulkRun == run.opened # {} /\ iout.closed /\ iout.prevMode = "bulk"

\* C36: in bulk mode the queue is not empty and bulkIndex is an index of
\* it; just after a bulk run has ended the queue is empty and bulkIndex 0
C36_IndexWithinQueue ==
    /\ app.importMode = "bulk" =>
          /\ Len(app.bulkQueue) > 0
          /\ 0 <= app.bulkIndex
          /\ app.bulkIndex < Len(app.bulkQueue)
    /\ (app.importMode # "bulk" /\ AfterBulkRun) =>
          /\ app.bulkQueue = <<>>
          /\ app.bulkIndex = 0

\* C37: a scan result changes the drafts only in the session of the
\* instance that issued the scan; one that resolves after its bulk entry
\* was closed leaves the drafts of the session of a later entry alone
C37_DraftsOnlyFromOwnScans ==
    [][iout'.op = "scanOk" =>
        \E i \in 1..Len(scans) :
            /\ scans' = RemoveAt(scans, i)
            /\ (wiz'.drafts # wiz.drafts \/ iout'.live) =>
                  /\ scans[i].key = ImportWizardKey(app)
                  /\ scans[i].live
            /\ scans[i].key # ImportWizardKey(app) => wiz' = wiz
      ]_vars

\* C37: the scan of an earlier bulk entry has resolved while the session of
\* a later entry was open
C37_Witness ==
    /\ iout.op = "scanOk"
    /\ ~iout.live
    /\ app.importMode = "bulk"
    /\ app.importOpen
    /\ app.bulkIndex > 0
    /\ wiz.authorDir = CurrentBulk(app).folder_path

C39_OpenedEntryIsScanned ==
    [][BulkSessionOpens =>
        /\ iout'.auto # <<>>
        /\ iout'.auto[1].authorDir = CurrentBulk(app').folder_path
        /\ wiz'.lastAutoScan = CurrentBulk(app').folder_path
        /\ app'.bulkIndex \in run'.scanned
      ]_vars

\* C39: the session of a later entry, whose inferred_author is not what the
\* folder name yields, has been opened by the timer and its scan issued
C39_Witness ==
    /\ iout.op = "timer"
    /\ app.importMode = "bulk"
    /\ app.importOpen
    /\ app.bulkIndex = 1
    /\ CurrentBulk(app).inferred_author # DirAuthor(CurrentBulk(app).folder_path)
    /\ Len(iout.auto) = 1
    /\ wiz.busy

====
